---- MODULE Spec2Model ----
(***************************************************************************)
(* The shared-subscription leader dispatcher of the MQTT broker            *)
(* (mqtt-broker/src/subscribe/sub_share_leader.rs): the supervisor loop    *)
(* that starts and stops one push task per share-leader key, and the push  *)
(* task itself (push_by_round_robin) with its QoS 0/1/2 delivery and its   *)
(* offset commits.  Beside it, the components the broker builds on: the    *)
(* JWT revocation list and its token store (common/jwt), the arithmetic of *)
(* RobustMQExpiry (common/base/src/utils/expiry.rs) and its u64 form, the  *)
(* MQTT v4 SUBACK codec (protocol/src/mqtt/mqttv4/suback.rs) and the TLS   *)
(* accept loop (mqtt-broker/src/server/tcp/v1/tls_server.rs).              *)
(***************************************************************************)
EXTENDS Integers, Sequences, FiniteSets, TLC

\* ------------------------------------------------------------------ bounds
MaxTasks == 2        \* push tasks alive at the same time
MaxRecords == 2      \* records in the topic log, offsets 1..MaxRecords
MaxPkid == 2         \* packet identifiers per client, 1..MaxPkid
MaxRegChanges == 3   \* changes of the subscriber registry in one run

\* ---------------------------------------------------------------- constants
Keys == {"g1_t1"}
Clients == {"c1", "c2"}
Tasks == 1..MaxTasks
Offsets == 1..MaxRecords
Pkids == 1..MaxPkid

SHARED_SUBSCRIPTION_STRATEGY_ROUND_ROBIN == "round_robin"
SHARED_SUBSCRIPTION_STRATEGY_RANDOM == "random"
SHARED_SUBSCRIPTION_STRATEGY_STICKY == "sticky"
SHARED_SUBSCRIPTION_STRATEGY_HASH == "hash"
SHARED_SUBSCRIPTION_STRATEGY_LOCAL == "local"
Strategies ==
  { SHARED_SUBSCRIPTION_STRATEGY_ROUND_ROBIN, SHARED_SUBSCRIPTION_STRATEGY_RANDOM,
    SHARED_SUBSCRIPTION_STRATEGY_STICKY, SHARED_SUBSCRIPTION_STRATEGY_HASH,
    SHARED_SUBSCRIPTION_STRATEGY_LOCAL }

\* The maximum QoS each subscriber asked for in its SUBSCRIBE (Subscriber.qos).
SubscriberQos(c) == IF c = "c1" THEN 1 ELSE 2

\* (now_second() - pre_update_sub_list_time) > 5: the refresh period in seconds.
RefreshSecs == 5

AckPackageTypes == {"PubAck", "PubRec", "PubComp"}

NoKey == "none"
NoClient == "none"
Absent == <<"absent">>

VARIABLES
  strategy,                  \* conf.subscribe.shared_subscription_strategy
  cluster_qos,               \* metadata_cache.get_cluster_info().max_qos()
  log,                       \* the topic log: offset -> does the record decode
  share_leader_subscribe,    \* registry: key -> Absent or the member list
  share_leader_push_thread,  \* key -> 0 or the task whose stop_sx is recorded
  task,                      \* task -> the local state of push_by_round_robin
  stop_rx,                   \* task -> a `true` is waiting in its stop channel
  group_offset,              \* key -> committed offset of (topic_id, group_id)
  ack_manager,               \* set of <<client_id, pkid>> with an AckPacketInfo
  pkid_info,                 \* set of <<client_id, pkid>> handed out by get_pkid
  sup_pc,                    \* where SubscribeShareLeader::start stands
  reg_changes,               \* registry changes made so far
  registered,                \* task -> the <<client_id, pkid>> it has added
  commits,                   \* the commit_group_offset calls that returned Ok
  replay,                    \* offsets acknowledged but not committed when
                             \* the process last stopped
  call,                      \* the library call at hand: operation, arguments
  ret,                       \* what that call returned
  revoked_tokens,            \* JwtManagerAdapter.revoked_tokens: <<id, expiry>>
  tokendb,                   \* column family "tokendb": <<key, stored bytes>>
  clock,                     \* RobustMQTimestamp::now().to_secs()
  tls                        \* the TLS server: acceptor tasks and connections

vars ==
  << strategy, cluster_qos, log, share_leader_subscribe, share_leader_push_thread,
     task, stop_rx, group_offset, ack_manager, pkid_info, sup_pc, reg_changes,
     registered, commits, replay, call, ret, revoked_tokens, tokendb, clock,
     tls >>

\* ------------------------------------------------------------------ helpers
Max(a, b) == IF a >= b THEN a ELSE b
Min(a, b) == IF a <= b THEN a ELSE b

RECURSIVE SeqToSet(_)
SeqToSet(s) == IF s = <<>> THEN {} ELSE {Head(s)} \cup SeqToSet(Tail(s))

RECURSIVE Without(_, _)
Without(s, c) ==
  IF s = <<>> THEN <<>>
  ELSE IF Head(s) = c THEN Without(Tail(s), c)
  ELSE <<Head(s)>> \o Without(Tail(s), c)

\* sub_common::min_qos
min_qos(a, b) == Min(a, b)

\* Mutant of calc_record_num: at least one record is asked for.
calc_record_num_AtLeastOne(sub_len) == Max(1, sub_len * 5)

\* fn calc_record_num(sub_len) { sub_len * 5 }
calc_record_num(sub_len) == sub_len * 5

\* fn build_share_leader_sub_list: the member list of the key, or an empty
\* list when the key is not in share_leader_subscribe.
build_share_leader_sub_list(key) ==
  IF share_leader_subscribe[key] = Absent THEN <<>>
  ELSE share_leader_subscribe[key]

\* build_publish: qos = min_qos(cluster_qos, subscribe.qos); the QoS the
\* message was published with is not consulted.
build_publish_qos(c) == min_qos(cluster_qos, SubscriberQos(c))

\* MessageStorage::read_topic_message(topic_id, group_id, record_num): up to
\* record_num records just past the committed offset.
read_topic_message(key, record_num) ==
  LET first == group_offset[key] + 1
      last == Min(MaxRecords, group_offset[key] + record_num)
  IN [i \in 1..Max(0, last - first + 1) |-> first + i - 1]

\* MessageStorage::commit_group_offset returning Ok: the cursor advances to
\* the offset and never regresses.
commit_group_offset(key, offset) ==
  group_offset' = [group_offset EXCEPT ![key] = Max(@, offset)]

\* MetadataCacheManager::get_pkid: the ids of the client that are free.
FreePkids(c) == {p \in Pkids : <<c, p>> \notin pkid_info}
\* Mutant of get_pkid: the first id, in use or not.
get_pkid_First(c) == 1

get_pkid(c) == CHOOSE p \in FreePkids(c) : \A q \in FreePkids(c) : p <= q

IdleTask ==
  [ pc |-> "none", key |-> NoKey, sub_list |-> <<>>, cursor_point |-> 0,
    record_num |-> 0, elapsed |-> 0, results |-> <<>>, record |-> 0,
    subscribe |-> NoClient, qos |-> 0, pkid |-> 0, events |-> <<>>,
    result |-> "none", error |-> "none", done0 |-> 0 ]

\* A spawned task that has neither ended nor panicked.
Alive(w) == task[w].pc \notin {"none", "stopped", "panicked"}
FreeTasks == {w \in Tasks : ~Alive(w)}

\* The components outside the dispatcher, which no step of it touches.
libVars == << call, ret, revoked_tokens, tokendb, clock, tls >>

regVars == << share_leader_subscribe, reg_changes >>
confVars == << strategy, cluster_qos, log, replay, libVars >>
storeVars == << group_offset, ack_manager, pkid_info >>
ghostVars == << registered, commits >>

\* No library call at hand, an empty revocation list and an empty store.
NoCall == [op |-> "none"]
NoRet == [tag |-> "none"]

\* The TLS server: `acceptor` is where each acceptor task stands, `stop_rx`
\* the values waiting in its broadcast receiver, `addr` the connection it
\* has accepted and is working on, `connections` the connection manager,
\* `next_addr` the next peer to connect; `sent` (what stop_sx has broadcast)
\* and `failed` (peers turned away) are history.
AcceptThreadNum == 2 \* accept_thread_num
MaxConns == 2        \* peers that connect to the listener
MaxBroadcasts == 2   \* values sent on stop_sx
Acceptors == 1..AcceptThreadNum
TlsState(pc) ==
  [ acceptor |-> [index \in Acceptors |-> pc],
    stop_rx |-> [index \in Acceptors |-> <<>>],
    addr |-> [index \in Acceptors |-> 0],
    connections |-> {},
    next_addr |-> 1,
    sent |-> <<>>,
    failed |-> {} ]
TlsIdle == TlsState("none")

LibIdle ==
  /\ call = NoCall
  /\ ret = NoRet
  /\ revoked_tokens = {}
  /\ tokendb = {}
  /\ clock = 0
  /\ tls = TlsIdle

\* ---------------------------------------------------------------------- Init
Init ==
  /\ strategy \in Strategies
  /\ cluster_qos \in 0..2
  /\ log \in [Offsets -> BOOLEAN]
  /\ share_leader_subscribe = [k \in Keys |-> Absent]
  /\ share_leader_push_thread = [k \in Keys |-> 0]
  /\ task = [w \in Tasks |-> IdleTask]
  /\ stop_rx = [w \in Tasks |-> FALSE]
  /\ group_offset = [k \in Keys |-> 0]
  /\ ack_manager = {}
  /\ pkid_info = {}
  /\ sup_pc = "start_push_thread"
  /\ reg_changes = 0
  /\ registered = [w \in Tasks |-> {}]
  /\ commits = {}
  /\ replay = {}
  /\ LibIdle

\* ------------------------------------------------- the subscriber registry
\* A client joins the group of the key (the key is created by its first
\* member), a client leaves it, or the key is dropped from the registry.
Subscribe(k, c) ==
  /\ reg_changes < MaxRegChanges
  /\ IF share_leader_subscribe[k] = Absent THEN TRUE
     ELSE c \notin SeqToSet(share_leader_subscribe[k])
  /\ share_leader_subscribe' =
       [share_leader_subscribe EXCEPT
          ![k] = IF @ = Absent THEN <<c>> ELSE Append(@, c)]
  /\ reg_changes' = reg_changes + 1
  /\ UNCHANGED << confVars, share_leader_push_thread, task, stop_rx,
                  group_offset, ack_manager, pkid_info, sup_pc, registered,
                  commits >>

Unsubscribe(k, c) ==
  /\ reg_changes < MaxRegChanges
  /\ share_leader_subscribe[k] # Absent
  /\ c \in SeqToSet(share_leader_subscribe[k])
  /\ share_leader_subscribe' =
       [share_leader_subscribe EXCEPT ![k] = Without(@, c)]
  /\ reg_changes' = reg_changes + 1
  /\ UNCHANGED << confVars, share_leader_push_thread, task, stop_rx,
                  group_offset, ack_manager, pkid_info, sup_pc, registered,
                  commits >>

RemoveKey(k) ==
  /\ reg_changes < MaxRegChanges
  /\ share_leader_subscribe[k] # Absent
  /\ share_leader_subscribe' = [share_leader_subscribe EXCEPT ![k] = Absent]
  /\ reg_changes' = reg_changes + 1
  /\ UNCHANGED << confVars, share_leader_push_thread, task, stop_rx,
                  group_offset, ack_manager, pkid_info, sup_pc, registered,
                  commits >>

\* ------------------------------------------------------------ the supervisor
SetTask(w, t) == task' = [task EXCEPT ![w] = t]

\* push_by_round_robin up to tokio::spawn: a stop channel is created, its
\* sender is recorded under the key and the task is spawned.
push_by_round_robin(k, w) ==
  /\ share_leader_push_thread' = [share_leader_push_thread EXCEPT ![k] = w]
  /\ SetTask(w, [IdleTask EXCEPT !.pc = "start", !.key = k])
  /\ stop_rx' = [stop_rx EXCEPT ![w] = FALSE]
  /\ registered' = [registered EXCEPT ![w] = {}]

\* The task slot a newly spawned push task takes.
NewTask == CHOOSE w \in FreeTasks : \A v \in FreeTasks : w <= v

\* The strategy branches of start_push_thread: only round_robin starts a
\* task; push_by_random, push_by_sticky, push_by_hash and push_by_local are
\* empty functions.
StartsTask(s) == s = SHARED_SUBSCRIPTION_STRATEGY_ROUND_ROBIN

\* start_push_thread, for the key of the registry.
StartPushThread(k) ==
  /\ sup_pc = "start_push_thread"
  /\ sup_pc' = "try_thread_gc"
  /\ IF /\ share_leader_subscribe[k] # Absent
        /\ share_leader_push_thread[k] = 0
        /\ StartsTask(strategy)
     THEN /\ FreeTasks # {}
          /\ push_by_round_robin(k, NewTask)
     ELSE UNCHANGED << share_leader_push_thread, task, stop_rx, registered >>
  /\ UNCHANGED << regVars, confVars, storeVars, commits >>

\* sx.send(true) returns Ok while the task that holds the receiver lives.
SendStopOk(w) == Alive(w)

\* try_thread_gc, for the key of a recorded handle: when the key has left the
\* registry the stop signal is sent and, if the send succeeded, the handle is
\* removed at once.
TryThreadGc(k) ==
  /\ sup_pc = "try_thread_gc"
  /\ sup_pc' = "start_push_thread"
  /\ LET w == share_leader_push_thread[k] IN
     IF w # 0 /\ share_leader_subscribe[k] = Absent /\ SendStopOk(w)
     THEN /\ stop_rx' = [stop_rx EXCEPT ![w] = TRUE]
          /\ share_leader_push_thread' =
               [share_leader_push_thread EXCEPT ![k] = 0]
     ELSE UNCHANGED << stop_rx, share_leader_push_thread >>
  /\ UNCHANGED << regVars, confVars, storeVars, ghostVars, task >>

\* A second passes on the clock read by now_second().  elapsed stands for
\* now_second() - pre_update_sub_list_time and takes three values: 0 for
\* every difference below RefreshSecs, RefreshSecs, and RefreshSecs + 1 for
\* every difference above it.  A task below RefreshSecs reaches it with this
\* second or stays below; a task at RefreshSecs moves past it.
Below(w) == Alive(w) /\ task[w].elapsed < RefreshSecs
AtRefresh(w) == Alive(w) /\ task[w].elapsed = RefreshSecs
Tick ==
  \E reach \in SUBSET {w \in Tasks : Below(w)} :
    /\ IF reach # {} THEN TRUE ELSE \E w \in Tasks : AtRefresh(w)
    /\ task' = [w \in Tasks |->
                  IF w \in reach THEN [task[w] EXCEPT !.elapsed = RefreshSecs]
                  ELSE IF AtRefresh(w)
                       THEN [task[w] EXCEPT !.elapsed = RefreshSecs + 1]
                       ELSE task[w]]
  /\ UNCHANGED << regVars, confVars, storeVars, ghostVars, stop_rx,
                  share_leader_push_thread, sup_pc >>

\* ------------------------------------------------------------- the push task
\* The start of the spawned task: the first member snapshot.
WorkerStart(w) ==
  /\ task[w].pc = "start"
  /\ LET sub_list == build_share_leader_sub_list(task[w].key) IN
     SetTask(w, [task[w] EXCEPT
                   !.pc = "top", !.cursor_point = 0, !.sub_list = sub_list,
                   !.elapsed = 0, !.record_num = calc_record_num(Len(sub_list))])
  /\ UNCHANGED << regVars, confVars, storeVars, ghostVars, stop_rx,
                  share_leader_push_thread, sup_pc >>

\* The member snapshot is reloaded when more than 5 seconds have passed.
NeedsRefresh(elapsed) == elapsed > RefreshSecs

\* The head of the main loop: stop_rx.try_recv(), then the snapshot refresh.
\* A received `true` ends the loop; the task then removes the handle that is
\* recorded under its key and ends.
WorkerLoopTop(w) ==
  /\ task[w].pc = "top"
  /\ IF stop_rx[w]
     THEN /\ SetTask(w, [IdleTask EXCEPT !.pc = "stopped"])
          /\ stop_rx' = [stop_rx EXCEPT ![w] = FALSE]
          /\ share_leader_push_thread' =
               [share_leader_push_thread EXCEPT ![task[w].key] = 0]
     ELSE /\ IF NeedsRefresh(task[w].elapsed)
             THEN LET sub_list == build_share_leader_sub_list(task[w].key) IN
                  SetTask(w, [task[w] EXCEPT
                                !.pc = "read", !.sub_list = sub_list,
                                !.elapsed = 0,
                                !.record_num = calc_record_num(Len(sub_list))])
             ELSE SetTask(w, [task[w] EXCEPT !.pc = "read"])
          /\ UNCHANGED << stop_rx, share_leader_push_thread >>
  /\ UNCHANGED << regVars, confVars, storeVars, ghostVars, sup_pc >>

\* read_topic_message: an error or an empty result sends the task to sleep
\* and back to the head of the loop.
WorkerRead(w) ==
  /\ task[w].pc = "read"
  /\ \E ok \in BOOLEAN :
       LET results == read_topic_message(task[w].key, task[w].record_num) IN
       IF ok /\ Len(results) > 0
       THEN SetTask(w, [task[w] EXCEPT !.pc = "record", !.results = results])
       ELSE SetTask(w, [task[w] EXCEPT !.pc = "top"])
  /\ UNCHANGED << regVars, confVars, storeVars, ghostVars, stop_rx,
                  share_leader_push_thread, sup_pc >>

\* Mutant of DecodeBranch: a record that does not decode is dispatched.
DecodeBranch_AlwaysPick(ok) == "pick"

\* The arms of `match Message::decode_record(record)`.
DecodeBranch(ok) == IF ok THEN "pick" ELSE "skip"

\* Mutant of WorkerNextRecord: the batch is walked from its last record.
WorkerNextRecord_Reversed(w) ==
  /\ task[w].pc = "record"
  /\ IF task[w].results = <<>>
     THEN SetTask(w, [task[w] EXCEPT !.pc = "top", !.record = 0, !.done0 = 0])
     ELSE LET record == task[w].results[Len(task[w].results)] IN
          SetTask(w, [task[w] EXCEPT
                        !.record = record,
                        !.results = SubSeq(@, 1, Len(@) - 1),
                        !.pc = DecodeBranch(log[record])])
  /\ UNCHANGED << regVars, confVars, storeVars, ghostVars, stop_rx,
                  share_leader_push_thread, sup_pc >>

\* for record in results: Message::decode_record.
WorkerNextRecord(w) ==
  /\ task[w].pc = "record"
  /\ IF task[w].results = <<>>
     THEN SetTask(w, [task[w] EXCEPT !.pc = "top", !.record = 0, !.done0 = 0])
     ELSE LET record == Head(task[w].results) IN
          SetTask(w, [task[w] EXCEPT
                        !.record = record, !.results = Tail(@),
                        !.pc = DecodeBranch(log[record])])
  /\ UNCHANGED << regVars, confVars, storeVars, ghostVars, stop_rx,
                  share_leader_push_thread, sup_pc >>

CommitEntry(w, kind) ==
  [ task |-> w, kind |-> kind, offset |-> task[w].record, qos |-> task[w].qos,
    result |-> task[w].result, error |-> task[w].error,
    events |-> task[w].events, pkid |-> task[w].pkid, after_stop |-> stop_rx[w] ]

\* A record that does not decode: one commit_group_offset call, whose error
\* is only logged, then the next record.
WorkerSkipCommit(w) ==
  /\ task[w].pc = "skip"
  /\ \E ok \in BOOLEAN :
       IF ok
       THEN /\ commit_group_offset(task[w].key, task[w].record)
            /\ commits' = commits \cup {CommitEntry(w, "skip")}
       ELSE UNCHANGED << group_offset, commits >>
  /\ SetTask(w, [task[w] EXCEPT !.pc = "record"])
  /\ UNCHANGED << regVars, confVars, ack_manager, pkid_info, registered,
                  stop_rx, share_leader_push_thread, sup_pc >>

\* Mutant of CurrentPoint: the cursor is ignored.
CurrentPoint_AlwaysFirst(cursor_point, len) == 0

\* current_point of the retry loop.
CurrentPoint(cursor_point, len) == IF cursor_point < len THEN cursor_point ELSE 0

\* Mutant of QosBranch: the QoS 1 and QoS 2 branches publish at once.
QosBranch_NoAcquire(qos) ==
  IF qos = 0 THEN "qos0" ELSE IF qos = 1 THEN "qos1_send" ELSE "qos2_send"

\* The branch of `match publish.qos`.
QosBranch(qos) == IF qos = 0 THEN "qos0" ELSE "acquire"

\* The head of the retry loop: the pick of the subscriber and build_publish.
\* sub_list.get(current_point).unwrap() panics on an empty list; a panicked
\* task ends without removing its handle.
WorkerPick(w) ==
  /\ task[w].pc = "pick"
  /\ LET len == Len(task[w].sub_list)
         current_point == CurrentPoint(task[w].cursor_point, len)
     IN IF current_point >= len
        THEN SetTask(w, [IdleTask EXCEPT !.pc = "panicked"])
        ELSE LET subscribe == task[w].sub_list[current_point + 1] IN
             SetTask(w, [task[w] EXCEPT
                           !.subscribe = subscribe,
                           !.cursor_point = current_point + 1,
                           !.qos = build_publish_qos(subscribe),
                           !.pkid = 0, !.events = <<>>, !.result = "none",
                           !.error = "none",
                           !.pc = QosBranch(build_publish_qos(subscribe))])
  /\ UNCHANGED << regVars, confVars, storeVars, ghostVars, stop_rx,
                  share_leader_push_thread, sup_pc >>

\* Mutant of AcquiredBranch: the QoS 2 branch commits before it publishes.
AcquiredBranch_CommitFirst(qos) == IF qos = 1 THEN "qos1_send" ELSE "commit"

\* Where the task goes with the pkid it acquired.
AcquiredBranch(qos) == IF qos = 1 THEN "qos1_send" ELSE "qos2_send"

\* get_pkid and ack_manager.add of the QoS 1 and QoS 2 branches.
WorkerAcquire(w) ==
  /\ task[w].pc = "acquire"
  /\ FreePkids(task[w].subscribe) # {}
  /\ LET c == task[w].subscribe
         pkid == get_pkid(c)
     IN /\ pkid_info' = pkid_info \cup {<<c, pkid>>}
        /\ ack_manager' = ack_manager \cup {<<c, pkid>>}
        /\ registered' = [registered EXCEPT ![w] = @ \cup {<<c, pkid>>}]
        /\ SetTask(w, [task[w] EXCEPT
                         !.pkid = pkid, !.pc = AcquiredBranch(task[w].qos)])
  /\ UNCHANGED << regVars, confVars, group_offset, commits, stop_rx,
                  share_leader_push_thread, sup_pc >>

SendOutcomes == {"written", "no_connection", "write_error"}

\* The RobustMQError of a PUBLISH that was not written: get_connect_id found
\* no connection, or publish_to_response_queue failed.
SendError(out) ==
  IF out = "no_connection" THEN "NoAvailableConnection" ELSE "CommmonError"

\* QoS 0: publish_message_qos0 hands the PUBLISH to the response queue when
\* the client is connected; the branch then breaks out of the retry loop.
WorkerQos0(w) ==
  /\ task[w].pc = "qos0"
  /\ \E out \in SendOutcomes :
       SetTask(w, [task[w] EXCEPT
                     !.pc = "record",
                     !.done0 = IF out = "written" THEN task[w].record ELSE @])
  /\ UNCHANGED << regVars, confVars, storeVars, registered, commits, stop_rx,
                  share_leader_push_thread, sup_pc >>

\* AckPackageData received by wait_packet_ack, or None when the wait ends
\* without one.
NoAck == [ack_type |-> "None", pkid |-> 0]
OtherPkid(pkid) == (pkid % MaxPkid) + 1
AckOutcomes(pkid) ==
  {[ack_type |-> t, pkid |-> q] : t \in AckPackageTypes, q \in {pkid, OtherPkid(pkid)}}
    \cup {NoAck}

\* Mutant of Qos1AckMatches: the pkid of the ack is not compared.
Qos1AckMatches_AnyPkid(data, pkid) == data # NoAck /\ data.ack_type = "PubAck"

\* share_leader_publish_message_qos1, the test of the received ack:
\* data.ack_type == AckPackageType::PubAck && data.pkid == pkid.
Qos1AckMatches(data, pkid) ==
  data # NoAck /\ data.ack_type = "PubAck" /\ data.pkid = pkid

\* Mutant of Qos1Branch: a failed attempt gives the record up.
Qos1Branch_DropRecord(ok) == IF ok THEN "commit" ELSE "record"

\* Where the QoS 1 branch goes with the result of
\* share_leader_publish_message_qos1: Ok to loop_commit_offset, Err round
\* the retry loop.
Qos1Branch(ok) == IF ok THEN "commit" ELSE "pick"

\* share_leader_publish_message_qos1 up to publish_to_response_queue: without
\* a connection or with a failed write it returns Err, the error is logged
\* and the retry loop goes round.
WorkerQos1Send(w) ==
  /\ task[w].pc = "qos1_send"
  /\ \E out \in SendOutcomes :
       IF out = "written"
       THEN SetTask(w, [task[w] EXCEPT
                          !.pc = "qos1_wait",
                          !.events = << <<"Publish", task[w].pkid>> >>])
       ELSE SetTask(w, [task[w] EXCEPT
                          !.pc = Qos1Branch(FALSE), !.result = "err",
                          !.error = SendError(out)])
  /\ UNCHANGED << regVars, confVars, storeVars, registered, commits, stop_rx,
                  share_leader_push_thread, sup_pc >>

\* share_leader_publish_message_qos1 from wait_packet_ack on.
WorkerQos1Wait(w) ==
  /\ task[w].pc = "qos1_wait"
  /\ \E data \in AckOutcomes(task[w].pkid) :
       LET ok == Qos1AckMatches(data, task[w].pkid) IN
       SetTask(w, [task[w] EXCEPT
                     !.events = IF ok THEN Append(@, <<data.ack_type, data.pkid>>)
                                ELSE @,
                     !.result = IF ok THEN "ok" ELSE "err",
                     !.error = IF ok THEN "none" ELSE "CommmonError",
                     !.pc = Qos1Branch(ok)])
  /\ UNCHANGED << regVars, confVars, storeVars, ghostVars, stop_rx,
                  share_leader_push_thread, sup_pc >>

\* The QoS 2 branch after publish_message_qos2 returned Err: the error is
\* logged and loop_commit_offset follows.
Qos2Failed(w, error) ==
  /\ SetTask(w, [task[w] EXCEPT
                   !.pc = "commit", !.result = "err", !.error = error])
  /\ UNCHANGED << pkid_info, ack_manager >>

\* The QoS 2 branch after publish_message_qos2 returned Ok: remove_pkid_info
\* and ack_manager.remove, then loop_commit_offset.
Qos2Succeeded(w, events) ==
  /\ SetTask(w, [task[w] EXCEPT
                   !.pc = "commit", !.result = "ok", !.events = events])
  /\ pkid_info' = pkid_info \ {<<task[w].subscribe, task[w].pkid>>}
  /\ ack_manager' = ack_manager \ {<<task[w].subscribe, task[w].pkid>>}

\* publish_message_qos2: the PUBLISH is written.
WorkerQos2Send(w) ==
  /\ task[w].pc = "qos2_send"
  /\ \E out \in SendOutcomes :
       IF out = "written"
       THEN /\ SetTask(w, [task[w] EXCEPT
                             !.pc = "qos2_wait_rec",
                             !.events = << <<"Publish", task[w].pkid>> >>])
            /\ UNCHANGED << pkid_info, ack_manager >>
       ELSE Qos2Failed(w, SendError(out))
  /\ UNCHANGED << regVars, confVars, group_offset, registered, commits, stop_rx,
                  share_leader_push_thread, sup_pc >>

\* publish_message_qos2: the wait for the PUBREC of the pkid.
WorkerQos2WaitRec(w) ==
  /\ task[w].pc = "qos2_wait_rec"
  /\ \E data \in AckOutcomes(task[w].pkid) :
       IF data.ack_type = "PubRec" /\ data.pkid = task[w].pkid
       THEN /\ SetTask(w, [task[w] EXCEPT
                             !.pc = "qos2_rel",
                             !.events = Append(@, <<"PubRec", data.pkid>>)])
            /\ UNCHANGED << pkid_info, ack_manager >>
       ELSE Qos2Failed(w, "CommmonError")
  /\ UNCHANGED << regVars, confVars, group_offset, ghostVars, stop_rx,
                  share_leader_push_thread, sup_pc >>

\* publish_message_qos2: the PUBREL is written.
WorkerQos2Rel(w) ==
  /\ task[w].pc = "qos2_rel"
  /\ \E out \in SendOutcomes :
       IF out = "written"
       THEN /\ SetTask(w, [task[w] EXCEPT
                             !.pc = "qos2_wait_comp",
                             !.events = Append(@, <<"PubRel", task[w].pkid>>)])
            /\ UNCHANGED << pkid_info, ack_manager >>
       ELSE Qos2Failed(w, SendError(out))
  /\ UNCHANGED << regVars, confVars, group_offset, ghostVars, stop_rx,
                  share_leader_push_thread, sup_pc >>

\* publish_message_qos2: the wait for the PUBCOMP of the pkid, and the return.
WorkerQos2WaitComp(w) ==
  /\ task[w].pc = "qos2_wait_comp"
  /\ \E data \in AckOutcomes(task[w].pkid) :
       IF data.ack_type = "PubComp" /\ data.pkid = task[w].pkid
       THEN Qos2Succeeded(w, Append(task[w].events, <<"PubComp", data.pkid>>))
       ELSE Qos2Failed(w, "CommmonError")
  /\ UNCHANGED << regVars, confVars, group_offset, ghostVars, stop_rx,
                  share_leader_push_thread, sup_pc >>

\* loop_commit_offset: commit_group_offset is called again and again; neither
\* arm of the match leaves the loop, so the function does not return.
LoopCommitNext(ok) == "commit"

WorkerLoopCommit(w) ==
  /\ task[w].pc = "commit"
  /\ \E ok \in BOOLEAN :
       /\ IF ok
          THEN /\ commit_group_offset(task[w].key, task[w].record)
               /\ commits' = commits \cup {CommitEntry(w, "deliver")}
          ELSE UNCHANGED << group_offset, commits >>
       /\ SetTask(w, [task[w] EXCEPT !.pc = LoopCommitNext(ok)])
  /\ UNCHANGED << regVars, confVars, ack_manager, pkid_info, registered,
                  stop_rx, share_leader_push_thread, sup_pc >>

\* ------------------------------------------------------------ specification
Next ==
  \/ \E k \in Keys, c \in Clients : Subscribe(k, c)
  \/ \E k \in Keys, c \in Clients : Unsubscribe(k, c)
  \/ \E k \in Keys : RemoveKey(k)
  \/ \E k \in Keys : StartPushThread(k)
  \/ \E k \in Keys : TryThreadGc(k)
  \/ Tick
  \/ \E w \in Tasks : WorkerStart(w)
  \/ \E w \in Tasks : WorkerLoopTop(w)
  \/ \E w \in Tasks : WorkerRead(w)
  \/ \E w \in Tasks : WorkerNextRecord(w)
  \/ \E w \in Tasks : WorkerSkipCommit(w)
  \/ \E w \in Tasks : WorkerPick(w)
  \/ \E w \in Tasks : WorkerAcquire(w)
  \/ \E w \in Tasks : WorkerQos0(w)
  \/ \E w \in Tasks : WorkerQos1Send(w)
  \/ \E w \in Tasks : WorkerQos1Wait(w)
  \/ \E w \in Tasks : WorkerQos2Send(w)
  \/ \E w \in Tasks : WorkerQos2WaitRec(w)
  \/ \E w \in Tasks : WorkerQos2Rel(w)
  \/ \E w \in Tasks : WorkerQos2WaitComp(w)
  \/ \E w \in Tasks : WorkerLoopCommit(w)

Spec == Init /\ [][Next]_vars

\* The supervisor loop and the push tasks are tokio tasks: each one that can
\* take a step eventually takes it.
SupervisorStep == \E k \in Keys : StartPushThread(k) \/ TryThreadGc(k)
WorkerStep(w) ==
  \/ WorkerStart(w) \/ WorkerLoopTop(w) \/ WorkerRead(w) \/ WorkerNextRecord(w)
  \/ WorkerSkipCommit(w) \/ WorkerPick(w) \/ WorkerAcquire(w) \/ WorkerQos0(w)
  \/ WorkerQos1Send(w) \/ WorkerQos1Wait(w) \/ WorkerQos2Send(w)
  \/ WorkerQos2WaitRec(w) \/ WorkerQos2Rel(w) \/ WorkerQos2WaitComp(w)
  \/ WorkerLoopCommit(w)

\* The node configured with the round_robin strategy, under fair scheduling.
FairInit == Init /\ strategy = SHARED_SUBSCRIPTION_STRATEGY_ROUND_ROBIN
FairSpec ==
  /\ FairInit
  /\ [][Next]_vars
  /\ WF_vars(SupervisorStep)
  /\ \A w \in Tasks : WF_vars(WorkerStep(w))

\* One led key whose push task has been spawned, until the key leaves the
\* registry: the member list does not change while the key is present.
PushInit ==
  /\ strategy = SHARED_SUBSCRIPTION_STRATEGY_ROUND_ROBIN
  /\ cluster_qos \in 0..2
  /\ log \in [Offsets -> BOOLEAN]
  /\ share_leader_subscribe \in
       [Keys -> {<<"c1">>, <<"c2">>, <<"c1", "c2">>, <<"c2", "c1">>}]
  /\ share_leader_push_thread = [k \in Keys |-> 1]
  /\ task = [w \in Tasks |->
               IF w = 1
               THEN [IdleTask EXCEPT !.pc = "start", !.key = CHOOSE k \in Keys : TRUE]
               ELSE IdleTask]
  /\ stop_rx = [w \in Tasks |-> FALSE]
  /\ group_offset = [k \in Keys |-> 0]
  /\ ack_manager = {}
  /\ pkid_info = {}
  /\ sup_pc = "try_thread_gc"
  /\ reg_changes = 0
  /\ registered = [w \in Tasks |-> {}]
  /\ commits = {}
  /\ replay = {}
  /\ LibIdle

PushNext ==
  \/ \E k \in Keys : RemoveKey(k)
  \/ \E k \in Keys : StartPushThread(k)
  \/ \E k \in Keys : TryThreadGc(k)
  \/ Tick
  \/ \E w \in Tasks : WorkerStart(w)
  \/ \E w \in Tasks : WorkerLoopTop(w)
  \/ \E w \in Tasks : WorkerRead(w)
  \/ \E w \in Tasks : WorkerNextRecord(w)
  \/ \E w \in Tasks : WorkerSkipCommit(w)
  \/ \E w \in Tasks : WorkerPick(w)
  \/ \E w \in Tasks : WorkerAcquire(w)
  \/ \E w \in Tasks : WorkerQos0(w)
  \/ \E w \in Tasks : WorkerQos1Send(w)
  \/ \E w \in Tasks : WorkerQos1Wait(w)
  \/ \E w \in Tasks : WorkerQos2Send(w)
  \/ \E w \in Tasks : WorkerQos2WaitRec(w)
  \/ \E w \in Tasks : WorkerQos2Rel(w)
  \/ \E w \in Tasks : WorkerQos2WaitComp(w)
  \/ \E w \in Tasks : WorkerLoopCommit(w)

PushSpec == PushInit /\ [][PushNext]_vars

\* The same, with the supervisor and the push task scheduled fairly.
PushFairSpec ==
  /\ PushInit
  /\ [][PushNext]_vars
  /\ WF_vars(SupervisorStep)
  /\ \A w \in Tasks : WF_vars(WorkerStep(w))

\* The broker process stops and is started again.  What lives in memory is
\* gone: the tasks, their stop channels, the pkids and the ack entries; the
\* clients come back and subscribe, and the push task of the key is spawned
\* anew.  The log and the committed group offset are in the storage layer
\* and stay.  replay keeps the offsets whose QoS 1 or QoS 2 delivery had been
\* acknowledged while the commit had not yet taken effect.
Restart ==
  /\ replay' =
       {e \in Keys \X Offsets :
          /\ e[2] > group_offset[e[1]]
          /\ \/ e \in replay
             \/ \E w \in Tasks :
                  /\ Alive(w) /\ task[w].key = e[1] /\ task[w].record = e[2]
                  /\ task[w].qos >= 1 /\ task[w].result = "ok"}
  /\ share_leader_subscribe' \in
       [Keys -> {<<"c1">>, <<"c2">>, <<"c1", "c2">>, <<"c2", "c1">>}]
  /\ share_leader_push_thread' = [k \in Keys |-> 1]
  /\ task' = [w \in Tasks |->
                IF w = 1
                THEN [IdleTask EXCEPT !.pc = "start", !.key = CHOOSE k \in Keys : TRUE]
                ELSE IdleTask]
  /\ stop_rx' = [w \in Tasks |-> FALSE]
  /\ ack_manager' = {}
  /\ pkid_info' = {}
  /\ sup_pc' = "try_thread_gc"
  /\ registered' = [w \in Tasks |-> {}]
  /\ commits' = {}
  /\ UNCHANGED << strategy, cluster_qos, log, libVars, group_offset, reg_changes >>

\* The push task of one key over stops and restarts of the process.
RestartNext == PushNext \/ Restart
RestartSpec == PushInit /\ [][RestartNext]_vars

\* ----------------------------------------------- outside the dispatcher
\* The dispatcher at rest, for the runs that exercise one of the other
\* components: no key, no task, nothing committed.
dispVars ==
  << strategy, log, share_leader_subscribe, share_leader_push_thread, task,
     stop_rx, group_offset, ack_manager, pkid_info, sup_pc, reg_changes,
     registered, commits, replay, tls >>
DispatcherIdle ==
  /\ strategy = SHARED_SUBSCRIPTION_STRATEGY_ROUND_ROBIN
  /\ log = [o \in Offsets |-> TRUE]
  /\ share_leader_subscribe = [k \in Keys |-> Absent]
  /\ share_leader_push_thread = [k \in Keys |-> 0]
  /\ task = [w \in Tasks |-> IdleTask]
  /\ stop_rx = [w \in Tasks |-> FALSE]
  /\ group_offset = [k \in Keys |-> 0]
  /\ ack_manager = {}
  /\ pkid_info = {}
  /\ sup_pc = "start_push_thread"
  /\ reg_changes = 0
  /\ registered = [w \in Tasks |-> {}]
  /\ commits = {}
  /\ replay = {}

\* ------------------------------------------------------------ build_publish
QosLevels == 0..2
Payloads == {"p1", "p2"}
NoSubscriptionIdentifier == 0
\* The stored message a PUBLISH is built from, with the QoS it was published
\* with, and the subscriber it is built for.
None == "none"
Messages ==
  [ qos : QosLevels, payload : Payloads, content_type : {None, "text/plain"},
    response_topic : {None, "reply/t"}, correlation_data : {None, "id-1"},
    message_expiry : {None, "60s"}, user_properties : {<<>>, << "k=v" >>} ]
Subscribers ==
  [ qos : QosLevels, subscription_identifier : {NoSubscriptionIdentifier, 1},
    is_contain_rewrite_flag : BOOLEAN ]

\* fn build_publish(metadata_cache, subscribe, topic_name, msg): the Publish
\* and the PublishProperties.  Of msg only the payload is read.
build_publish(cluster, subscribe, topic_name, msg) ==
  LET sub_id == IF subscribe.subscription_identifier # NoSubscriptionIdentifier
                THEN << subscribe.subscription_identifier >> ELSE <<>>
      qos == min_qos(cluster, subscribe.qos)
      user_properteis == IF subscribe.is_contain_rewrite_flag
                         THEN << "share_sub_rewrite_publish_flag" >> ELSE <<>>
  IN [ tag |-> "build_publish",
       publish |-> [ dup |-> FALSE, qos |-> qos, pkid |-> 0, retain |-> FALSE,
                     topic |-> topic_name, payload |-> msg.payload ],
       properties |-> [ payload_format_indicator |-> None,
                        message_expiry_interval |-> None,
                        topic_alias |-> None,
                        response_topic |-> None,
                        correlation_data |-> None,
                        user_properties |-> user_properteis,
                        subscription_identifiers |-> sub_id,
                        content_type |-> None ] ]

BuildCalls ==
  { [op |-> "build_publish", subscribe |-> sub, msg |-> m] :
      sub \in Subscribers, m \in Messages }

BuildInit ==
  /\ DispatcherIdle
  /\ tls = TlsIdle
  /\ cluster_qos \in QosLevels
  /\ call \in BuildCalls
  /\ ret = NoRet
  /\ revoked_tokens = {} /\ tokendb = {} /\ clock = 0

BuildPublish ==
  /\ call.op = "build_publish" /\ ret = NoRet
  /\ ret' = build_publish(cluster_qos, call.subscribe, "t1", call.msg)
  /\ UNCHANGED << dispVars, cluster_qos, call, revoked_tokens, tokendb, clock >>

BuildNext == BuildPublish
BuildSpec == BuildInit /\ [][BuildNext]_vars

\* ----------------------------------------------------------- RobustMQExpiry
MaxDuration == 2     \* durations of 0..MaxDuration microseconds
MaxLen == 3          \* expiry values in one list

NeverExpire == [kind |-> "NeverExpire", duration |-> 0]
ServerDefault == [kind |-> "ServerDefault", duration |-> 0]
ExpireDuration(d) == [kind |-> "ExpireDuration", duration |-> d]
Expiries ==
  {NeverExpire, ServerDefault} \cup {ExpireDuration(d) : d \in 0..MaxDuration}
NoneExpiry == [kind |-> "None", duration |-> 0]

\* impl Add for RobustMQDuration: self.duration + rhs.duration.
DurationAdd(lhs, rhs) == lhs + rhs

\* Mutant of ExpiryAdd: a duration added to ServerDefault survives.
ExpiryAdd_DurationWins(lhs, rhs) ==
  IF lhs.kind = "NeverExpire" THEN rhs
  ELSE IF rhs.kind = "NeverExpire" THEN lhs
  ELSE IF lhs.kind = "ExpireDuration" THEN lhs ELSE rhs

\* impl Add for RobustMQExpiry: the arms of the match, in their order.
ExpiryAdd(lhs, rhs) ==
  CASE lhs.kind = "NeverExpire" /\ rhs.kind = "NeverExpire" -> NeverExpire
    [] lhs.kind = "NeverExpire" -> rhs
    [] rhs.kind = "NeverExpire" -> lhs
    [] lhs.kind = "ExpireDuration" /\ rhs.kind = "ExpireDuration" ->
         ExpireDuration(DurationAdd(lhs.duration, rhs.duration))
    [] lhs.kind = "ServerDefault" /\ rhs.kind = "ExpireDuration" -> ServerDefault
    [] lhs.kind = "ServerDefault" /\ rhs.kind = "ServerDefault" -> ServerDefault
    [] lhs.kind = "ExpireDuration" /\ rhs.kind = "ServerDefault" -> ServerDefault

\* iter.fold(init, |acc, x| acc + x)
RECURSIVE ExpiryFold(_, _)
ExpiryFold(acc, items) ==
  IF items = <<>> THEN acc
  ELSE ExpiryFold(ExpiryAdd(acc, Head(items)), Tail(items))

\* impl Sum for RobustMQExpiry
ExpirySum(items) == ExpiryFold(NeverExpire, items)

\* impl From<Vec<RobustMQExpiry>> for RobustMQExpiry: result = result + value
\* over the values, from NeverExpire.
RECURSIVE ExpiryFromVecLoop(_, _, _)
ExpiryFromVecLoop(result, values, i) ==
  IF i > Len(values) THEN result
  ELSE ExpiryFromVecLoop(ExpiryAdd(result, values[i]), values, i + 1)
ExpiryFromVec(values) == ExpiryFromVecLoop(NeverExpire, values, 1)

\* RobustMQExpiry::new(values): values.map(|items| items.iter().cloned().sum())
NoneList == [some |-> FALSE, items |-> <<>>]
SomeList(items) == [some |-> TRUE, items |-> items]
ExpiryNew(values) == IF values.some THEN ExpirySum(values.items) ELSE NoneExpiry

ExpiryLists == UNION {[1..n -> Expiries] : n \in 0..MaxLen}
ExpiryCalls ==
  {[op |-> "add", lhs |-> l, rhs |-> r, values |-> NoneList] : l, r \in Expiries}
    \cup {[op |-> o, lhs |-> NeverExpire, rhs |-> NeverExpire, values |-> SomeList(v)] :
            o \in {"sum", "from_vec", "new"}, v \in ExpiryLists}
    \cup {[op |-> "new", lhs |-> NeverExpire, rhs |-> NeverExpire, values |-> NoneList]}

ExpiryInit ==
  /\ DispatcherIdle
  /\ tls = TlsIdle
  /\ cluster_qos = 0
  /\ call \in ExpiryCalls
  /\ ret = NoRet
  /\ revoked_tokens = {} /\ tokendb = {} /\ clock = 0

ExpiryReturn(value) ==
  /\ ret = NoRet
  /\ ret' = [tag |-> "expiry", value |-> value]
  /\ UNCHANGED << dispVars, cluster_qos, call, revoked_tokens, tokendb, clock >>

ExpiryAddCall == call.op = "add" /\ ExpiryReturn(ExpiryAdd(call.lhs, call.rhs))
ExpirySumCall == call.op = "sum" /\ ExpiryReturn(ExpirySum(call.values.items))
ExpiryFromVecCall ==
  call.op = "from_vec" /\ ExpiryReturn(ExpiryFromVec(call.values.items))
ExpiryNewCall == call.op = "new" /\ ExpiryReturn(ExpiryNew(call.values))

ExpiryNext ==
  \/ ExpiryAddCall
  \/ ExpirySumCall
  \/ ExpiryFromVecCall
  \/ ExpiryNewCall
ExpirySpec == ExpiryInit /\ [][ExpiryNext]_vars

\* The u64 microsecond form.  The word is kept short: U64Max stands for
\* u64::MAX, the largest value of the word.
U64Max == 31
U64 == 0..U64Max
U64Expiries == {NeverExpire, ServerDefault} \cup {ExpireDuration(d) : d \in U64}

\* RobustMQDuration::as_micros: self.duration.as_micros() as u64.
as_micros(duration) == duration % (U64Max + 1)

\* impl From<RobustMQExpiry> for u64, and the match of Serialize.
ExpiryIntoU64(val) ==
  CASE val.kind = "ExpireDuration" -> as_micros(val.duration)
    [] val.kind = "ServerDefault" -> 0
    [] val.kind = "NeverExpire" -> U64Max

\* impl From<u64> for RobustMQExpiry, which visit_u64 calls.
ExpiryFromU64(value) ==
  CASE value = U64Max -> NeverExpire
    [] value = 0 -> ServerDefault
    [] OTHER -> ExpireDuration(value)

U64Calls ==
  {[op |-> "serialize", expiry |-> e, value |-> 0] : e \in U64Expiries}
    \cup {[op |-> "deserialize", expiry |-> NeverExpire, value |-> n] : n \in U64}

U64Init ==
  /\ DispatcherIdle
  /\ tls = TlsIdle
  /\ cluster_qos = 0
  /\ call \in U64Calls
  /\ ret = NoRet
  /\ revoked_tokens = {} /\ tokendb = {} /\ clock = 0

\* Serialize for RobustMQExpiry: the u64 handed to the serializer.
ExpirySerialize ==
  /\ call.op = "serialize"
  /\ ret = NoRet
  /\ ret' = [tag |-> "u64", value |-> ExpiryIntoU64(call.expiry)]
  /\ UNCHANGED << dispVars, cluster_qos, call, revoked_tokens, tokendb, clock >>

\* Deserialize for RobustMQExpiry: of a u64 given by the caller, or of the
\* u64 that serialize has written.
ExpiryDeserialize ==
  /\ \/ /\ call.op = "deserialize"
        /\ ret = NoRet
        /\ ret' = [tag |-> "expiry", value |-> ExpiryFromU64(call.value)]
     \/ /\ call.op = "serialize"
        /\ ret.tag = "u64"
        /\ ret' = [tag |-> "expiry", value |-> ExpiryFromU64(ret.value)]
  /\ UNCHANGED << dispVars, cluster_qos, call, revoked_tokens, tokendb, clock >>

U64Next ==
  \/ ExpirySerialize
  \/ ExpiryDeserialize
U64Spec == U64Init /\ [][U64Next]_vars

\* ------------------------------------------------------------ MQTT v4 SUBACK
MaxCodes == 2        \* return codes in a short SUBACK
MaxRemainingLength == 268435455

Ok(value) == [ok |-> TRUE, value |-> value, error |-> "none"]
Err(error) == [ok |-> FALSE, value |-> 0, error |-> error]

\* enum SubscribeReasonCode, as far as the codec tells its variants apart.
Success(qos) == [kind |-> "Success", qos |-> qos]
Reason(kind) == [kind |-> kind, qos |-> 0]
Failure == Reason("Failure")
V4ReturnCodes == {Success(q) : q \in QosLevels} \cup {Failure}
SubscribeReasonCodes ==
  V4ReturnCodes \cup {Reason("QoS1"), Reason("Unspecified"), Reason("NotAuthorized")}

\* Mutant of code: every granted QoS is written as 0.
code_GrantedAsZero(reason) == IF reason.kind = "Success" THEN 0 ELSE 128

\* fn code(reason: SubscribeReasonCode) -> u8
code(reason) ==
  CASE reason.kind = "Success" -> reason.qos
    [] reason.kind = "Failure" -> 128
    [] reason.kind = "QoS0" -> 0
    [] reason.kind = "QoS1" -> 1
    [] reason.kind = "QoS2" -> 2
    [] reason.kind = "Unspecified" -> 128
    [] reason.kind = "ImplementationSpecific" -> 131
    [] reason.kind = "NotAuthorized" -> 135
    [] reason.kind = "TopicFilterInvalid" -> 143
    [] reason.kind = "PkidInUse" -> 145
    [] reason.kind = "QuotaExceeded" -> 151
    [] reason.kind = "SharedSubscriptionsNotSupported" -> 158
    [] reason.kind = "SubscriptionIdNotSupported" -> 161
    [] reason.kind = "WildcardSubscriptionsNotSupported" -> 162
    [] reason.kind = "ExclusiveSubscriptionDisabled" -> 143
    [] reason.kind = "TopicSubscribed" -> 151

\* fn reason(code: u8) -> Result<SubscribeReasonCode, Error>
reason(c) ==
  CASE c = 0 -> Ok(Success(0))
    [] c = 1 -> Ok(Success(1))
    [] c = 2 -> Ok(Success(2))
    [] c = 128 -> Ok(Failure)
    [] OTHER -> Err("InvalidSubscribeReasonCode")

\* SubAck::len: 2 bytes of packet identifier and one byte per return code.
SubAckLen(suback) == 2 + Len(suback.return_codes)

\* The variable-length encoding of the remaining length: seven bits a byte,
\* the low ones first, the top bit set on every byte but the last.
RECURSIVE RemainingLengthBytes(_)
RemainingLengthBytes(x) ==
  IF x \div 128 > 0
  THEN << (x % 128) + 128 >> \o RemainingLengthBytes(x \div 128)
  ELSE << x % 128 >>

\* write_remaining_length(buffer, len): the bytes to append and their number.
write_remaining_length(len) ==
  IF len > MaxRemainingLength THEN Err("PayloadTooLong")
  ELSE Ok(RemainingLengthBytes(len))

\* BufMut::put_u16 and read_u16: two bytes, the high one first.
put_u16(n) == << (n % 65536) \div 256, n % 256 >>
read_u16(bytes) == bytes[1] * 256 + bytes[2]

\* pub fn write(suback, buffer) -> Result<usize, Error>: the buffer after the
\* call and the value returned.
write(suback, buffer) ==
  LET remaining_len == SubAckLen(suback)
      remaining_len_bytes == write_remaining_length(remaining_len)
      p == [i \in 1..Len(suback.return_codes) |-> code(suback.return_codes[i])]
  IN IF ~remaining_len_bytes.ok
     THEN [ result |-> Err(remaining_len_bytes.error),
            buffer |-> Append(buffer, 144) ]
     ELSE [ result |-> Ok(1 + Len(remaining_len_bytes.value) + remaining_len),
            buffer |-> Append(buffer, 144) \o remaining_len_bytes.value
                         \o put_u16(suback.pkid) \o p ]

\* parse_fixed_header(stream): the first byte, and the remaining length
\* decoded from the bytes after it.
RECURSIVE LengthAt(_, _)
LengthAt(stream, i) ==
  IF stream[i] >= 128
  THEN LET rest == LengthAt(stream, i + 1)
       IN [len |-> (stream[i] - 128) + 128 * rest.len, bytes |-> rest.bytes + 1]
  ELSE [len |-> stream[i], bytes |-> 1]
parse_fixed_header(stream) ==
  [ byte1 |-> stream[1], fixed_header_len |-> 1 + LengthAt(stream, 2).bytes,
    remaining_len |-> LengthAt(stream, 2).len ]

\* The first return code that reason() rejects, or 0.
FirstInvalid(codes) ==
  IF \E i \in 1..Len(codes) : ~reason(codes[i]).ok
  THEN CHOOSE i \in 1..Len(codes) :
         ~reason(codes[i]).ok /\ \A j \in 1..(i - 1) : reason(codes[j]).ok
  ELSE 0

\* pub fn read(fixed_header, bytes) -> Result<SubAck, Error>
read(fixed_header, bytes) ==
  LET after_header == SubSeq(bytes, fixed_header.fixed_header_len + 1, Len(bytes))
      codes == SubSeq(after_header, 3, Len(after_header))
  IN IF Len(after_header) < 2 THEN Err("MalformedPacket")
     ELSE IF codes = <<>> THEN Err("MalformedPacket")
     ELSE IF FirstInvalid(codes) # 0 THEN reason(codes[FirstInvalid(codes)])
     ELSE Ok([ pkid |-> read_u16(after_header),
               return_codes |-> [i \in 1..Len(codes) |-> reason(codes[i]).value] ])

\* The SUBACKs written: every list of up to MaxCodes return codes, and lists
\* long enough for a remaining length of one and of two bytes.
LongLens == {125, 126, 127}
LongCodes(n) == [i \in 1..n |-> IF i % 2 = 1 THEN Success(1) ELSE Failure]
SubAckPkids == {0, 5, 255, 256, 65535}
SubAcks ==
  [ pkid : SubAckPkids,
    return_codes : UNION {[1..n -> SubscribeReasonCodes] : n \in 0..MaxCodes}
                     \cup {LongCodes(n) : n \in LongLens} ]
\* What the buffer holds before the SUBACK: nothing, or a PINGRESP.
Buffers == {<<>>, <<208, 0>>}

SubAckInit ==
  /\ DispatcherIdle
  /\ tls = TlsIdle
  /\ cluster_qos = 0
  /\ call \in {[op |-> "suback", suback |-> a, buffer |-> b] :
                 a \in SubAcks, b \in Buffers}
  /\ ret = NoRet
  /\ revoked_tokens = {} /\ tokendb = {} /\ clock = 0

\* write(&suback, &mut buffer)
SubAckWrite ==
  /\ call.op = "suback" /\ ret = NoRet
  /\ ret' = [tag |-> "written", written |-> write(call.suback, call.buffer)]
  /\ UNCHANGED << dispVars, cluster_qos, call, revoked_tokens, tokendb, clock >>

\* The packet that write appended, parsed and read back.
SubAckRead ==
  /\ ret.tag = "written" /\ ret.written.result.ok
  /\ LET packet == SubSeq(ret.written.buffer, Len(call.buffer) + 1,
                          Len(ret.written.buffer))
         fixed_header == parse_fixed_header(packet)
     IN ret' = [ tag |-> "read", written |-> ret.written,
                 fixed_header |-> fixed_header,
                 read |-> read(fixed_header, packet) ]
  /\ UNCHANGED << dispVars, cluster_qos, call, revoked_tokens, tokendb, clock >>

SubAckNext ==
  \/ SubAckWrite
  \/ SubAckRead
SubAckSpec == SubAckInit /\ [][SubAckNext]_vars

\* ------------------------------------------------- the JWT revocation list
MaxClock == 2        \* seconds on the clock of RobustMQTimestamp::now()
TokenIds == {"t1", "t2"}
TokenOrder == << "t1", "t2" >>          \* the key order of the column family
TokenExpiries == {0, 1, 10}             \* expiry times, in seconds

\* A map with one value per key, as a set of <<key, value>>.
Has(map, key) == \E e \in map : e[1] = key
Get(map, key) == (CHOOSE e \in map : e[1] = key)[2]
Remove(map, key) == {e \in map : e[1] # key}
Insert(map, key, value) == Remove(map, key) \cup {<<key, value>>}

\* RocksDBEngine::write serialises the u64: its decimal digits, in ASCII.
RECURSIVE SerializeU64(_)
SerializeU64(n) ==
  IF n < 10 THEN << 48 + n >>
  ELSE Append(SerializeU64(n \div 10), 48 + (n % 10))

\* Mutant of ParseU64: only the last digit is read.
ParseU64_LastDigit(bytes) == bytes[Len(bytes)] - 48

\* String::from_utf8(x.1).unwrap().parse::<u64>().unwrap()
RECURSIVE ParseU64(_)
ParseU64(bytes) ==
  IF Len(bytes) = 1 THEN bytes[1] - 48
  ELSE ParseU64(SubSeq(bytes, 1, Len(bytes) - 1)) * 10 + (bytes[Len(bytes)] - 48)

\* RokcsDBTokenStorageAdapter, when the database call returns Ok.
save_revoked_access_token(db, token) ==
  Insert(db, token.id, SerializeU64(token.expiry))
delete_revoked_access_tokens(db, id) == Remove(db, id)
load_all_revoked_access_tokens(db) ==
  LET keys == SelectSeq(TokenOrder, LAMBDA k : Has(db, k))
  IN [i \in 1..Len(keys) |-> [id |-> keys[i], expiry |-> ParseU64(Get(db, keys[i]))]]

RevokedAccessToken(id, expiry) == [id |-> id, expiry |-> expiry]
JwtCall(op, id, expiry) == [op |-> op, id |-> id, expiry |-> expiry]
JwtRet(ok, value) == [tag |-> "jwt", ok |-> ok, panicked |-> FALSE, value |-> value]
JwtPanic == [tag |-> "jwt", ok |-> FALSE, panicked |-> TRUE, value |-> <<>>]

JwtInit ==
  /\ DispatcherIdle
  /\ tls = TlsIdle
  /\ cluster_qos = 0
  /\ call = NoCall
  /\ ret = NoRet
  /\ revoked_tokens = {}
  /\ tokendb = {}
  /\ clock = 0

\* TokenStorage::save_revoked_access_token, called on the store itself.
SaveRevokedAccessToken(id, expiry) ==
  /\ call' = JwtCall("save_revoked_access_token", id, expiry)
  /\ \E ok \in BOOLEAN :
       /\ tokendb' = IF ok
                     THEN save_revoked_access_token(tokendb, RevokedAccessToken(id, expiry))
                     ELSE tokendb
       /\ ret' = JwtRet(ok, <<>>)
  /\ UNCHANGED << dispVars, cluster_qos, revoked_tokens, clock >>

\* TokenStorage::delete_revoked_access_tokens, called on the store itself.
DeleteRevokedAccessTokens(id) ==
  /\ call' = JwtCall("delete_revoked_access_tokens", id, 0)
  /\ \E ok \in BOOLEAN :
       /\ tokendb' = IF ok THEN delete_revoked_access_tokens(tokendb, id) ELSE tokendb
       /\ ret' = JwtRet(ok, <<>>)
  /\ UNCHANGED << dispVars, cluster_qos, revoked_tokens, clock >>

\* TokenStorage::load_all_revoked_access_tokens, called on the store itself.
LoadAllRevokedAccessTokens ==
  /\ call' = JwtCall("load_all_revoked_access_tokens", "", 0)
  /\ \E ok \in BOOLEAN :
       ret' = JwtRet(ok, IF ok THEN load_all_revoked_access_tokens(tokendb) ELSE <<>>)
  /\ UNCHANGED << dispVars, cluster_qos, revoked_tokens, tokendb, clock >>

\* JwtManager::load_revoked_tokens: every stored token goes into the map.
LoadRevokedTokens ==
  /\ call' = JwtCall("load_revoked_tokens", "", 0)
  /\ \E ok \in BOOLEAN :
       /\ revoked_tokens' =
            IF ok
            THEN {e \in revoked_tokens : ~Has(tokendb, e[1])}
                   \cup {<<e[1], ParseU64(e[2])>> : e \in tokendb}
            ELSE revoked_tokens
       /\ ret' = JwtRet(ok, <<>>)
  /\ UNCHANGED << dispVars, cluster_qos, tokendb, clock >>

\* JwtManager::revoke_token: the map entry first, then the store; the result
\* of the store is the result of the call.
RevokeToken(id, expiry) ==
  /\ call' = JwtCall("revoke_token", id, expiry)
  /\ revoked_tokens' = Insert(revoked_tokens, id, expiry)
  /\ \E ok \in BOOLEAN :
       /\ tokendb' = IF ok
                     THEN save_revoked_access_token(tokendb, RevokedAccessToken(id, expiry))
                     ELSE tokendb
       /\ ret' = JwtRet(ok, <<>>)
  /\ UNCHANGED << dispVars, cluster_qos, clock >>

\* value() <= &RobustMQTimestamp::now().to_secs()
Expired(expiry, now) == expiry <= now

\* JwtManager::is_token_revoked: an entry that has expired is removed from the
\* map and from the store, and the result of the store is unwrapped.
IsTokenRevoked(id) ==
  /\ call' = JwtCall("is_token_revoked", id, 0)
  /\ IF Has(revoked_tokens, id)
     THEN IF Expired(Get(revoked_tokens, id), clock)
          THEN /\ revoked_tokens' = Remove(revoked_tokens, id)
               /\ \E ok \in BOOLEAN :
                    IF ok
                    THEN /\ tokendb' = delete_revoked_access_tokens(tokendb, id)
                         /\ ret' = JwtRet(TRUE, TRUE)
                    ELSE /\ tokendb' = tokendb
                         /\ ret' = JwtPanic
          ELSE /\ ret' = JwtRet(TRUE, TRUE)
               /\ UNCHANGED << revoked_tokens, tokendb >>
     ELSE /\ ret' = JwtRet(TRUE, FALSE)
          /\ UNCHANGED << revoked_tokens, tokendb >>
  /\ UNCHANGED << dispVars, cluster_qos, clock >>

\* JwtManagerAdapter::delete_expired_revoked_tokens(now): the expired entries
\* are taken in the order the map yields them; each is removed from the map
\* and then from the store, and the first error of the store ends the call.
DeleteExpiredRevokedTokens ==
  /\ call' = JwtCall("delete_expired_revoked_tokens", "", clock)
  /\ LET expired == {e[1] : e \in {x \in revoked_tokens : Expired(x[2], clock)}}
     IN \E deleted \in SUBSET expired :
          \/ /\ deleted = expired
             /\ revoked_tokens' = {e \in revoked_tokens : e[1] \notin expired}
             /\ tokendb' = {e \in tokendb : e[1] \notin expired}
             /\ ret' = JwtRet(TRUE, <<>>)
          \/ \E failed \in expired \ deleted :
               /\ revoked_tokens' =
                    {e \in revoked_tokens : e[1] \notin deleted \cup {failed}}
               /\ tokendb' = {e \in tokendb : e[1] \notin deleted}
               /\ ret' = JwtRet(FALSE, <<>>)
  /\ UNCHANGED << dispVars, cluster_qos, clock >>

\* A second passes.
ClockTick ==
  /\ clock < MaxClock
  /\ clock' = clock + 1
  /\ UNCHANGED << dispVars, cluster_qos, call, ret, revoked_tokens, tokendb >>

JwtNext ==
  \/ \E id \in TokenIds, expiry \in TokenExpiries : SaveRevokedAccessToken(id, expiry)
  \/ \E id \in TokenIds : DeleteRevokedAccessTokens(id)
  \/ LoadAllRevokedAccessTokens
  \/ LoadRevokedTokens
  \/ \E id \in TokenIds, expiry \in TokenExpiries : RevokeToken(id, expiry)
  \/ \E id \in TokenIds : IsTokenRevoked(id)
  \/ DeleteExpiredRevokedTokens
  \/ ClockTick
JwtSpec == JwtInit /\ [][JwtNext]_vars

\* The tokens handed to refresh_token: the empty string, a string whose
\* header does not decode, and a JWT with its jti and exp claims.
RefreshTokens ==
  {[kind |-> "empty", jti |-> "", exp |-> 0], [kind |-> "invalid", jti |-> "", exp |-> 0]}
    \cup [kind : {"jwt"}, jti : TokenIds, exp : TokenExpiries]

\* JwtManagerAdapter::refresh_token: an empty token, an undecodable header
\* and a failed validation return Err before anything is written; then the
\* map entry is inserted, the store is written (its error ends the call), and
\* the new token is generated.
RefreshToken(token) ==
  /\ call' = JwtCall("refresh_token", token.jti, token.exp)
  /\ IF token.kind # "jwt"
     THEN /\ ret' = JwtRet(FALSE, <<>>)
          /\ UNCHANGED << revoked_tokens, tokendb >>
     ELSE \E decoded \in BOOLEAN :
            IF ~decoded
            THEN /\ ret' = JwtRet(FALSE, <<>>)
                 /\ UNCHANGED << revoked_tokens, tokendb >>
            ELSE /\ revoked_tokens' = Insert(revoked_tokens, token.jti, token.exp)
                 /\ \E saved \in BOOLEAN :
                      IF saved
                      THEN /\ tokendb' = save_revoked_access_token(
                                            tokendb, RevokedAccessToken(token.jti, token.exp))
                           /\ \E generated \in BOOLEAN : ret' = JwtRet(generated, <<>>)
                      ELSE /\ tokendb' = tokendb
                           /\ ret' = JwtRet(FALSE, <<>>)
  /\ UNCHANGED << dispVars, cluster_qos, clock >>

\* The manager on its own: the store is reached only through the manager, and
\* load_revoked_tokens has filled the map from what the store held.
StoredMaps == {db \in SUBSET (TokenIds \X TokenExpiries) :
                 \A a, b \in db : a[1] = b[1] => a = b}
ManagerInit ==
  /\ DispatcherIdle
  /\ tls = TlsIdle
  /\ cluster_qos = 0
  /\ call = JwtCall("load_revoked_tokens", "", 0)
  /\ ret = JwtRet(TRUE, <<>>)
  /\ \E stored \in StoredMaps :
       /\ tokendb = {<<e[1], SerializeU64(e[2])>> : e \in stored}
       /\ revoked_tokens = {<<e[1], ParseU64(e[2])>> : e \in tokendb}
  /\ clock = 0
ManagerNext ==
  \/ \E id \in TokenIds, expiry \in TokenExpiries : RevokeToken(id, expiry)
  \/ \E token \in RefreshTokens : RefreshToken(token)
  \/ \E id \in TokenIds : IsTokenRevoked(id)
  \/ DeleteExpiredRevokedTokens
  \/ ClockTick
ManagerSpec == ManagerInit /\ [][ManagerNext]_vars

\* ----------------------------------------------------- the TLS accept loop
nonTlsVars ==
  << strategy, cluster_qos, log, share_leader_subscribe, share_leader_push_thread,
     task, stop_rx, group_offset, ack_manager, pkid_info, sup_pc, reg_changes,
     registered, commits, replay, call, ret, revoked_tokens, tokendb, clock >>

\* acceptor_tls_process has returned Ok: every acceptor task is spawned with
\* its own receiver of stop_sx and stands at the select!.
TlsInit ==
  /\ DispatcherIdle
  /\ cluster_qos = 0
  /\ call = NoCall
  /\ ret = NoRet
  /\ revoked_tokens = {}
  /\ tokendb = {}
  /\ clock = 0
  /\ tls = TlsState("select")

\* stop_sx.send(flag): every receiver that is still alive gets the value.
TlsBroadcast(flag) ==
  /\ Len(tls.sent) < MaxBroadcasts
  /\ tls' = [tls EXCEPT
               !.sent = Append(@, flag),
               !.stop_rx = [index \in Acceptors |->
                              IF tls.acceptor[index] = "stopped" THEN @[index]
                              ELSE Append(@[index], flag)]]
  /\ UNCHANGED nonTlsVars

\* select!: val = stop_rx.recv().  A true ends the loop, a false does not.
TlsRecvStop(index) ==
  /\ tls.acceptor[index] = "select"
  /\ tls.stop_rx[index] # <<>>
  /\ tls' = [tls EXCEPT
               !.stop_rx[index] = Tail(@),
               !.acceptor[index] = IF Head(tls.stop_rx[index]) THEN "stopped" ELSE @]
  /\ UNCHANGED nonTlsVars

\* select!: val = listener.accept().  Ok goes on to the TLS handshake, Err is
\* logged and the loop goes round.
TlsAccept(index) ==
  /\ tls.acceptor[index] = "select"
  /\ tls.next_addr <= MaxConns
  /\ \E ok \in BOOLEAN :
       tls' = [tls EXCEPT
                 !.next_addr = @ + 1,
                 !.addr[index] = IF ok THEN tls.next_addr ELSE @,
                 !.acceptor[index] = IF ok THEN "handshake" ELSE @]
  /\ UNCHANGED nonTlsVars

\* raw_tls_acceptor.accept(stream).await: Err is logged, then `continue`.
TlsHandshake(index) ==
  /\ tls.acceptor[index] = "handshake"
  /\ \E ok \in BOOLEAN :
       tls' = [tls EXCEPT
                 !.acceptor[index] = IF ok THEN "check" ELSE "select",
                 !.addr[index] = IF ok THEN @ ELSE 0,
                 !.failed = IF ok THEN @ ELSE @ \cup {tls.addr[index]}]
  /\ UNCHANGED nonTlsVars

\* tcp_tls_establish_connection_check: false is `continue`; true adds the
\* connection and its write half to the connection manager and spawns the
\* read task.
TlsEstablishCheck(index) ==
  /\ tls.acceptor[index] = "check"
  /\ \E ok \in BOOLEAN :
       tls' = [tls EXCEPT
                 !.acceptor[index] = "select",
                 !.addr[index] = 0,
                 !.connections = IF ok THEN @ \cup {tls.addr[index]} ELSE @,
                 !.failed = IF ok THEN @ ELSE @ \cup {tls.addr[index]}]
  /\ UNCHANGED nonTlsVars

TlsNext ==
  \/ \E flag \in BOOLEAN : TlsBroadcast(flag)
  \/ \E index \in Acceptors : TlsRecvStop(index)
  \/ \E index \in Acceptors : TlsAccept(index)
  \/ \E index \in Acceptors : TlsHandshake(index)
  \/ \E index \in Acceptors : TlsEstablishCheck(index)

\* The runtime polls a task that can go on; select! picks among the ready
\* branches at random, so a value that waits in stop_rx is taken in the end
\* if the task keeps coming back to the select!.  How long the peer takes
\* over the TLS handshake is up to the peer.
TlsSpec ==
  /\ TlsInit
  /\ [][TlsNext]_vars
  /\ \A index \in Acceptors :
       /\ SF_vars(TlsRecvStop(index))
       /\ WF_vars(TlsEstablishCheck(index))

\* ------------------------------------------------------------------ claims
Qos1Handshake(pkid) == << <<"Publish", pkid>>, <<"PubAck", pkid>> >>
Qos2Handshake(pkid) ==
  << <<"Publish", pkid>>, <<"PubRec", pkid>>, <<"PubRel", pkid>>,
     <<"PubComp", pkid>> >>
Delivered == {c \in commits : c.kind = "deliver"}
IndexOf(s, c) == CHOOSE i \in 1..Len(s) : s[i] = c
NextMember(s, c) == IF c = NoClient THEN s[1] ELSE s[(IndexOf(s, c) % Len(s)) + 1]
PickStep(w) == task[w].pc = "pick" /\ task'[w].pc \in {"qos0", "acquire"}
AcquireStep(w) == task[w].pc = "acquire" /\ task'[w].pc # "acquire"
SkipStep(w) == task[w].pc = "skip" /\ task'[w].pc # "skip"
Qos1WaitStep(w) == task[w].pc = "qos1_wait" /\ task'[w].pc # "qos1_wait"
InRetryLoop(w) ==
  task[w].pc \in {"pick", "acquire", "qos1_send", "qos1_wait"}
AwaitingAck(w) ==
  task[w].pc \in {"qos1_send", "qos1_wait", "qos2_send", "qos2_wait_rec",
                  "qos2_rel", "qos2_wait_comp"}
InAttempt(w) ==
  task[w].pc \in {"qos1_send", "qos1_wait", "qos2_send", "qos2_wait_rec",
                  "qos2_rel", "qos2_wait_comp", "commit"}
Held(w) == registered[w] \cap (pkid_info \cup ack_manager)
RunningKeys == {task[w].key : w \in {v \in Tasks : Alive(v)}}
RegistryKeys == {k \in Keys : share_leader_subscribe[k] # Absent}

\* C1: a failed QoS 1 or QoS 2 delivery never advances the committed offset:
\* every commit made for a dispatched record follows a delivery that reached
\* its terminal success state.
C1_NoCommitAfterFailure == \A c \in Delivered : c.result = "ok"

\* C2: a QoS 2 record is committed as delivered only after PUBLISH(pkid) out,
\* PUBREC(pkid) in, PUBREL(pkid) out, PUBCOMP(pkid) in, in this order.
C2_Qos2HandshakeBeforeCommit ==
  \A c \in Delivered :
    c.qos = 2 /\ c.result # "err" => c.events = Qos2Handshake(c.pkid)
C2_Witness == \E c \in Delivered : c.qos = 2 /\ c.result = "ok"

\* C3: a QoS 1 record is committed only after
\* share_leader_publish_message_qos1 returned Ok, and it returns Ok only when
\* the PUBLISH was written and then a PubAck with the published pkid came in.
C3_Qos1AckBeforeCommit ==
  /\ \A c \in Delivered :
       c.qos = 1 => c.result = "ok" /\ c.events = Qos1Handshake(c.pkid)
  /\ \A w \in Tasks :
       task[w].qos = 1 /\ task[w].result = "ok"
         => task[w].events = Qos1Handshake(task[w].pkid)
C3_Witness == \E c \in Delivered : c.qos = 1 /\ c.offset > 0

\* C4: loop_commit_offset returns as soon as commit_group_offset returned Ok:
\* a task whose commit of the record succeeded is no longer in the loop.
C4_CommitLoopReturns ==
  \A w \in Tasks :
    task[w].pc = "commit"
      => ~ \E c \in Delivered : c.task = w /\ c.offset = task[w].record

\* C5: once the PUBLISH of a QoS 0 record was handed to the router, the
\* record's offset is committed before the task moves to the next record.
C5_Qos0Committed ==
  \A w \in Tasks :
    task[w].done0 # 0 => group_offset[task[w].key] >= task[w].done0

\* C6: at most one push task is running for a share-leader key.
C6_OneWorkerPerKey ==
  \A k \in Keys : Cardinality({w \in Tasks : Alive(w) /\ task[w].key = k}) <= 1

\* C7: the running push tasks follow the registry: once the registry has
\* stopped changing, the set of keys with a running task eventually equals
\* the set of registry keys, and stays so.
C7_WorkersFollowRegistry == <>[](RunningKeys = RegistryKeys)

\* C8: after the stop signal was sent to a task, the task commits no offset.
C8_NoCommitAfterStop == \A c \in commits : ~c.after_stop

\* C9: once a cancelled task has ended, the ack manager holds no entry that
\* the task added.
C9_NoEntriesAfterStop ==
  \A w \in Tasks : task[w].pc = "stopped" => registered[w] \cap ack_manager = {}
C9_Witness == \E w \in Tasks : task[w].pc = "stopped"
C9_StoppedAfterRegistering ==
  \E w \in Tasks : task[w].pc = "stopped" /\ registered[w] # {}

\* C10: a pkid acquired for an attempt is released when the attempt ends: a
\* task holds no pkid and no ack entry beyond those of its running attempt.
C10_PkidReleased ==
  \A w \in Tasks :
    Held(w) \subseteq
      (IF InAttempt(w) THEN {<<task[w].subscribe, task[w].pkid>>} ELSE {})

\* C11: under round_robin with a member snapshot that does not change and
\* deliveries that succeed at the first attempt, each pick takes the member
\* that follows the previous recipient in snapshot order, cyclically, and
\* the first pick takes the first member: N consecutive records go to the
\* N members, each once.
C11_RoundRobinOrder ==
  [][\A w \in Tasks :
       PickStep(w) /\ task[w].result # "err"
         => task'[w].subscribe = NextMember(task[w].sub_list, task[w].subscribe)
    ]_vars
C11_Witness ==
  \E w \in Tasks :
    /\ task[w].pc = "qos0" /\ Len(task[w].sub_list) = 2
    /\ task[w].done0 = 1 /\ task[w].record = 2
    /\ task[w].subscribe = task[w].sub_list[2]

\* C12: each record is sent to exactly one member: no record is committed as
\* dispatched without its PUBLISH having been written to the chosen member.
C12_SentBeforeCommit == \A c \in Delivered : c.events # <<>>

\* C13: the offsets a task commits are non-decreasing: whenever the task is
\* about to commit the offset of its record, every offset it has committed
\* so far is at most that offset.
C13_CommitsNonDecreasing ==
  \A w \in Tasks :
    task[w].pc \in {"skip", "commit"}
      => \A d \in commits : d.task = w => d.offset <= task[w].record
C13_Witness == \E c, d \in commits : c.task = d.task /\ c.offset < d.offset

\* C14: a record whose attempts all fail does not keep the task forever: a
\* task that goes round the retry loop after a failed attempt eventually
\* leaves the loop.
C14_RetryBounded ==
  \A w \in Tasks :
    (task[w].pc = "pick" /\ task[w].result = "err") ~> ~InRetryLoop(w)

\* C15: a QoS 1 attempt that ends without the PUBACK commits nothing and
\* goes round the retry loop with the same record; the retry picks the member
\* after the one that failed; an acknowledged attempt goes to the commit of
\* that record.
C15_RetrySameRecord ==
  [][\A w \in Tasks :
       /\ Qos1WaitStep(w) /\ task'[w].result = "err"
            => /\ task'[w].pc = "pick"
               /\ task'[w].record = task[w].record
               /\ commits' = commits /\ group_offset' = group_offset
       /\ Qos1WaitStep(w) /\ task'[w].result = "ok"
            => task'[w].pc = "commit" /\ task'[w].record = task[w].record
       /\ PickStep(w) /\ task[w].result = "err"
            => /\ task'[w].record = task[w].record
               /\ task'[w].subscribe =
                    NextMember(task[w].sub_list, task[w].subscribe)
               /\ commits' = commits /\ group_offset' = group_offset
    ]_vars
C15_Witness ==
  \E w \in Tasks :
    /\ task[w].pc = "pick" /\ task[w].qos = 1 /\ task[w].result = "err"
    /\ task[w].events = << <<"Publish", task[w].pkid>> >>
    /\ task[w].sub_list = <<"c1", "c2">> /\ task[w].subscribe = "c1"
    /\ group_offset[task[w].key] < task[w].record

\* C16: an attempt that failed because the chosen subscriber has no
\* connection is never followed by the commit of the record's offset.
C16_NoCommitWithoutConnection ==
  \A c \in commits : c.error # "NoAvailableConnection"

C18_PickedIsMember ==
  [][\A w \in Tasks :
       PickStep(w)
         => task'[w].subscribe \in
              SeqToSet(build_share_leader_sub_list(task[w].key))
    ]_vars

C20_InOffsetOrder ==
  \A w \in Tasks :
    task[w].done0 > 1 /\ log[task[w].done0 - 1]
      => group_offset[task[w].key] >= task[w].done0 - 1

\* C21: a record whose QoS 1 or QoS 2 delivery was acknowledged but whose
\* offset was not committed when the process stopped is read again after the
\* restart, and its offset is committed only once a delivery of it to a
\* member has succeeded again: the record is not lost.
C21_ReplayedAfterRestart ==
  \A e \in replay :
    IF group_offset[e[1]] < e[2]
    THEN e[2] \in SeqToSet(read_topic_message(e[1], calc_record_num(1)))
    ELSE \E c \in Delivered : c.offset = e[2] /\ c.result = "ok"

\* C22: under each of the five strategies, start_push_thread gives a key that
\* is in the registry and has no push task a task and records its stop
\* handle.
C22_EveryStrategySpawns ==
  [][\A k \in Keys :
       /\ sup_pc = "start_push_thread" /\ sup_pc' = "try_thread_gc"
       /\ share_leader_subscribe[k] # Absent /\ share_leader_push_thread[k] = 0
       => share_leader_push_thread'[k] # 0
    ]_vars

\* C23: the QoS of a PUBLISH built for a subscriber is the minimum of the QoS
\* the message was published with, the subscriber's QoS and the cluster's
\* maximum QoS.
C23_QosIsMinOfThree ==
  ret.tag = "build_publish"
    => ret.publish.qos =
         Min(call.msg.qos, Min(call.subscribe.qos, cluster_qos))

\* C24: a QoS 1 delivery to a member that left the group while the delivery
\* waited for its ack completes with that member's PUBACK, and the task then
\* goes on to the next record: once the commit of the acknowledged record
\* succeeded the task is past it.
C24_GoesOnAfterLeaver ==
  \A w \in Tasks :
    /\ Alive(w) /\ task[w].qos = 1 /\ task[w].result = "ok"
    /\ task[w].subscribe \notin SeqToSet(build_share_leader_sub_list(task[w].key))
    /\ group_offset[task[w].key] >= task[w].record
    => task[w].pc # "commit"

\* C25: the call of is_token_revoked(id) that follows a revoke_token(id,
\* expiry) which returned Ok returns true, whatever the expiry.
C25_RevokedIsRevoked ==
  [][\A id \in TokenIds :
       /\ call.op = "revoke_token" /\ call.id = id /\ ret.ok
       /\ call'.op = "is_token_revoked" /\ call'.id = id
       => ~ret'.panicked /\ ret'.value = TRUE
    ]_vars

\* C26: a save that succeeded leaves the store with the saved token under
\* its id, one entry per id, and every other entry as it was; a delete that
\* succeeded leaves no entry of the id and every other entry as it was;
\* load_all returns the entries of the store with the expiry that was saved.
StoredTokens(db) == SeqToSet(load_all_revoked_access_tokens(db))
StoreStep(op) == call'.op = op /\ ret'.ok /\ clock' = clock
C26_StoreSaveLoadDelete ==
  [][/\ StoreStep("save_revoked_access_token")
          => /\ StoredTokens(tokendb') =
                  {t \in StoredTokens(tokendb) : t.id # call'.id}
                    \cup {RevokedAccessToken(call'.id, call'.expiry)}
             /\ Cardinality(StoredTokens(tokendb')) =
                  Len(load_all_revoked_access_tokens(tokendb'))
             /\ Cardinality({t.id : t \in StoredTokens(tokendb')}) =
                  Len(load_all_revoked_access_tokens(tokendb'))
     /\ StoreStep("delete_revoked_access_tokens")
          => StoredTokens(tokendb') =
               {t \in StoredTokens(tokendb) : t.id # call'.id}
     /\ StoreStep("load_all_revoked_access_tokens")
          => ret'.value = load_all_revoked_access_tokens(tokendb) /\ tokendb' = tokendb
    ]_vars
C26_Witness ==
  /\ call = JwtCall("delete_revoked_access_tokens", "t1", 0) /\ ret.ok
  /\ load_all_revoked_access_tokens(tokendb) = << RevokedAccessToken("t2", 10) >>

\* C27: NeverExpire is the identity of the addition, two durations add up,
\* ServerDefault absorbs; the sum of a list by Sum, From<Vec> or new(Some) is
\* the left fold from NeverExpire, which by these laws is ServerDefault when
\* the list holds one, else the ExpireDuration of the summed durations, else
\* NeverExpire; new(None) is None.
DurationsOf(items) ==
  [i \in 1..Len(items) |->
     IF items[i].kind = "ExpireDuration" THEN items[i].duration ELSE 0]
RECURSIVE SumSeq(_)
SumSeq(q) == IF q = <<>> THEN 0 ELSE Head(q) + SumSeq(Tail(q))
KindsOf(items) == {items[i].kind : i \in 1..Len(items)}
ListSum(items) ==
  IF "ServerDefault" \in KindsOf(items) THEN ServerDefault
  ELSE IF "ExpireDuration" \in KindsOf(items)
       THEN ExpireDuration(SumSeq(DurationsOf(items)))
       ELSE NeverExpire
C27_ExpiryAddition ==
  ret.tag = "expiry" =>
    /\ call.op = "add" =>
         /\ call.lhs = NeverExpire => ret.value = call.rhs
         /\ call.rhs = NeverExpire => ret.value = call.lhs
         /\ call.lhs.kind = "ExpireDuration" /\ call.rhs.kind = "ExpireDuration"
              => ret.value = ExpireDuration(call.lhs.duration + call.rhs.duration)
         /\ call.lhs = ServerDefault \/ call.rhs = ServerDefault
              => ret.value = ServerDefault
    /\ call.op \in {"sum", "from_vec", "new"} /\ call.values.some
         => ret.value = ListSum(call.values.items)
    /\ call.op = "new" /\ ~call.values.some => ret.value = NoneExpiry
C27_Witness ==
  /\ ret.tag = "expiry" /\ call.op = "from_vec"
  /\ call.values.items = << ExpireDuration(1), NeverExpire, ExpireDuration(2) >>
  /\ ret.value = ExpireDuration(3)

\* C28: for a SUBACK with a non-empty list of return codes among
\* Success(QoS0), Success(QoS1), Success(QoS2) and Failure, write succeeds,
\* the first byte it appends is 0x90, it returns the number of bytes it
\* appended, which is 1 + the bytes of the remaining length + the remaining
\* length, and read gives back the same pkid and the same return codes.
V4SubAck(suback) ==
  /\ suback.return_codes # <<>>
  /\ \A i \in 1..Len(suback.return_codes) : suback.return_codes[i] \in V4ReturnCodes
C28_SubAckRoundTrip ==
  call.op = "suback" /\ V4SubAck(call.suback) =>
    /\ ret.tag \in {"written", "read"} =>
         /\ ret.written.result.ok
         /\ ret.written.buffer[Len(call.buffer) + 1] = 144
         /\ ret.written.result.value = Len(ret.written.buffer) - Len(call.buffer)
    /\ ret.tag = "read" =>
         /\ ret.written.result.value =
              ret.fixed_header.fixed_header_len + ret.fixed_header.remaining_len
         /\ ret.read.ok
         /\ ret.read.value.pkid = call.suback.pkid
         /\ ret.read.value.return_codes = call.suback.return_codes
C28_Witness ==
  /\ ret.tag = "read" /\ call.suback.pkid = 256 /\ call.buffer # <<>>
  /\ Len(call.suback.return_codes) = 127
  /\ ret.fixed_header.fixed_header_len = 3 /\ ret.read.ok

\* C29: a commit that failed is made again before anything else: after a
\* commit_group_offset call that returned an error, on the decode-error path
\* as after a delivery, the task is still at the commit of the same record.
C29_FailedCommitRetried ==
  [][\A w \in Tasks :
       /\ task[w].pc \in {"skip", "commit"} /\ task'[w] # task[w]
       /\ task[w].elapsed = task'[w].elapsed
       /\ group_offset'[task[w].key] < task[w].record
       => task'[w].pc = task[w].pc /\ task'[w].record = task[w].record
    ]_vars

\* C30: a task whose member snapshot is empty, from its start or since a
\* refresh, never picks: it does not panic, it holds no record, and its steps
\* send nothing and commit nothing; it keeps polling the log from the
\* committed offset.
C30_EmptySnapshotIdles ==
  [][\A w \in Tasks :
       /\ task'[w].pc # "panicked"
       /\ Alive(w) /\ task[w].pc # "start" /\ task[w].sub_list = <<>>
          => /\ task[w].pc \in {"top", "read"} /\ task[w].results = <<>>
             /\ task'[w] # task[w]
                  => /\ task'[w].pc \in {"top", "read", "stopped", "start"}
                     /\ commits' = commits /\ group_offset' = group_offset
                     /\ ack_manager' = ack_manager /\ pkid_info' = pkid_info
    ]_vars
C30_Witness ==
  \E w \in Tasks :
    /\ task[w].pc = "read" /\ task[w].sub_list = <<>> /\ task[w].cursor_point > 0
    /\ group_offset[task[w].key] < MaxRecords

\* C31: try_thread_gc removes the handle of a key only once the task that
\* owned it has ended: every running task has its handle recorded under its
\* key.
C31_HandleWhileRunning ==
  \A w \in Tasks : Alive(w) => share_leader_push_thread[task[w].key] = w

\* C32: the properties built for a PUBLISH carry the subscriber's
\* subscription identifier exactly when it has one, copy content_type,
\* response_topic, correlation_data, message_expiry and user_properties of
\* the message, and end with the rewrite user-property exactly when the
\* subscriber's rewrite flag is set.
C32_PropertiesForwarded ==
  ret.tag = "build_publish" =>
    LET sub == call.subscribe
        msg == call.msg
        properties == ret.properties
    IN /\ properties.subscription_identifiers =
            (IF sub.subscription_identifier # NoSubscriptionIdentifier
             THEN << sub.subscription_identifier >> ELSE <<>>)
       /\ properties.content_type = msg.content_type
       /\ properties.response_topic = msg.response_topic
       /\ properties.correlation_data = msg.correlation_data
       /\ properties.message_expiry_interval = msg.message_expiry
       /\ properties.user_properties =
            msg.user_properties \o
              (IF sub.is_contain_rewrite_flag
               THEN << "share_sub_rewrite_publish_flag" >> ELSE <<>>)

\* C33: a PUBLISH at QoS 0 carries pkid 0 and its branch adds no ack entry;
\* a PUBLISH at QoS 1 or 2 carries the pkid acquired for the recipient in
\* this attempt, and the ack entry of (client_id, pkid) is there when the
\* packet is written.
PublishStep(w) ==
  /\ task[w].pc \in {"qos1_send", "qos2_send"}
  /\ task'[w].pc \in {"qos1_wait", "qos2_wait_rec"}
C33_AckEntryBeforePublish ==
  [][\A w \in Tasks :
       /\ task[w].pc = "qos0" /\ task'[w].pc # "qos0"
            => /\ task[w].qos = 0 /\ task[w].pkid = 0
               /\ ack_manager' = ack_manager /\ pkid_info' = pkid_info
       /\ PublishStep(w)
            => /\ task[w].qos \in {1, 2} /\ task[w].pkid \in Pkids
               /\ task'[w].events = << <<"Publish", task[w].pkid>> >>
               /\ <<task[w].subscribe, task[w].pkid>> \in ack_manager
               /\ <<task[w].subscribe, task[w].pkid>> \in registered[w]
    ]_vars
C33_Witness ==
  \E w \in Tasks :
    /\ task[w].pc = "qos2_wait_rec" /\ task[w].pkid = 2
    /\ task[w].events = << <<"Publish", 2>> >>
    /\ <<task[w].subscribe, 2>> \in ack_manager

\* C34: the number of records a task asks for is max(1, 5 * members) of its
\* snapshot, at its start and after every reload.
C34_BatchAtLeastOne ==
  \A w \in Tasks :
    Alive(w) /\ task[w].pc # "start"
      => task[w].record_num = Max(1, 5 * Len(task[w].sub_list))

\* C35: at the head of the main loop the snapshot is reloaded from the
\* registry when 5 seconds or more have passed since the last reload, and
\* it changes at no other step.
C35_RefreshAtFiveSeconds ==
  [][\A w \in Tasks :
       /\ task[w].pc = "top" /\ task'[w].pc = "read"
          /\ task[w].elapsed >= RefreshSecs
            => /\ task'[w].sub_list = build_share_leader_sub_list(task[w].key)
               /\ task'[w].elapsed = 0
       /\ Alive(w) /\ task[w].pc \notin {"start", "top"} /\ task'[w].pc # "start"
          /\ task'[w].pc \notin {"none", "stopped", "panicked"}
            => task'[w].sub_list = task[w].sub_list
    ]_vars

\* C36: a task that ends removes only its own handle: the handle recorded
\* for another task stays.
C36_ExitRemovesOwnHandle ==
  [][\A w \in Tasks :
       task[w].pc = "top" /\ task'[w].pc = "stopped"
         => \A k \in Keys :
              share_leader_push_thread[k] # w
                => share_leader_push_thread'[k] = share_leader_push_thread[k]
    ]_vars

\* C37: whatever manager calls follow load_revoked_tokens, storage errors
\* included, the revoked-token map and the token store hold the same token
\* ids with the same expiries.
C37_MapMatchesStore ==
  revoked_tokens = {<<e[1], ParseU64(e[2])>> : e \in tokendb}

\* C38: is_token_revoked(id) returns true exactly when id is in the map at
\* the time of the call, whatever its expiry; when the expiry is at or before
\* the current time, the call leaves the id neither in the map nor in the
\* store.
C38_RevokedIffInMapAndExpiredRemoved ==
  [][(call'.op = "is_token_revoked" /\ clock' = clock) =>
       /\ ret'.ok
       /\ ~ret'.panicked
       /\ ret'.value = Has(revoked_tokens, call'.id)
       /\ (Has(revoked_tokens, call'.id)
             /\ Expired(Get(revoked_tokens, call'.id), clock)) =>
            /\ ~Has(revoked_tokens', call'.id)
            /\ ~Has(tokendb', call'.id)]_vars

\* C39: an expiry serialised to its u64 microsecond form and deserialised
\* again is the expiry it was: NeverExpire, ServerDefault and every
\* ExpireDuration, of zero and of u64::MAX microseconds too.
C39_U64RoundTrip ==
  (call.op = "serialize" /\ ret.tag = "expiry") => ret.value = call.expiry

\* C40: once true has been broadcast on the stop channel every acceptor task
\* terminates, and no acceptor accepts a connection after that broadcast; a
\* task ends only on a true, never on a false; a connection whose handshake
\* or establish check failed is not in the connection manager.
C40_AcceptorsStopOnTrue ==
  /\ (TRUE \in SeqToSet(tls.sent)) ~> (\A index \in Acceptors : tls.acceptor[index] = "stopped")
  /\ [][\A index \in Acceptors :
          /\ (tls.acceptor[index] = "select" /\ tls'.acceptor[index] = "handshake")
               => TRUE \notin SeqToSet(tls.sent)
          /\ (tls.acceptor[index] # "stopped" /\ tls'.acceptor[index] = "stopped")
               => /\ tls.stop_rx[index] # <<>>
                  /\ Head(tls.stop_rx[index])]_vars
  /\ [](tls.connections \cap tls.failed = {})

====
